---- MODULE Spec2Model ----
(***************************************************************************)
(* Leilao tracker: the daily run (scrapers -> dedup -> novelty ->          *)
(* overrides -> enrichment -> snapshot) and the enrichment / scoring       *)
(* functions of enrich-properties.ts.                                      *)
(*                                                                         *)
(* Representation.                                                         *)
(*  - A JavaScript string is a tuple of one-character strings; accented    *)
(*    characters are written "a_til", "e_acu", "o_acu", "a_acu" and the    *)
(*    superscript two of "m2" is "sup2".                                   *)
(*  - An optional value (undefined / null) is None == <<>> or Some(v).     *)
(*  - A JavaScript number that is not an integer is a pair [n, d] meaning  *)
(*    n / d with d > 0; Math.round is computed exactly on such pairs.      *)
(*  - Instants are whole hours; DayHours is one day.                       *)
(***************************************************************************)
EXTENDS Integers, Sequences, FiniteSets, TLC

VARIABLES
    phase,      \* enrichment harness: "idle", "input" or "enriched"
    rec,        \* enrichment harness: the record before / after enrichProperty
    now,        \* Date.now() at scoring time, in hours
    pc,         \* runDaily: the step the run is at
    src,        \* runDaily: the state of each scraper's promise
    sources,    \* runDaily: the lists collected from the settled promises
    props,      \* runDaily: deduplicated, then withNewFlags (mutated by overrides)
    enrichedList,   \* runDaily: the result of enrichProperties
    overrides,  \* data/property-overrides.json as the run finds it
    files,      \* data/<date>.json by day number: None or Some(list)
    today,      \* the calendar day of the run
    runs,       \* how many times the daily script was started
    pages,      \* the HTML pages written by the run
    pushed,     \* outcome of gitCommitAndPush: "none", "ok" or "failed"
    zuk,        \* scrapeZuk: the position and data of one call
    cx,         \* scrapeCaixa: the position and data of one call, and the cache file
    steps       \* the pipeline stages completed so far, in order

runVars == <<pc, src, sources, props, enrichedList, overrides, files, today, runs,
             pages, pushed, steps>>

harnessVars == <<phase, rec>>

scraperVars == <<zuk, cx>>

vars == <<phase, rec, now, pc, src, sources, props, enrichedList, overrides, files,
          today, runs, pages, pushed, steps, zuk, cx>>

\* A scraper that is not part of the behaviour under study.
Idle == [pc |-> "idle"]

None == <<>>
Some(v) == <<v>>
IsSome(o) == o # <<>>
Val(o) == o[1]

Min(a, b) == IF a <= b THEN a ELSE b
Max(a, b) == IF a >= b THEN a ELSE b

\* Math.round(n / d) for d > 0: the nearest integer, ties towards +infinity.
MathRound(n, d) == (2 * n + d) \div (2 * d)

\* Math.ceil(n / d) for d > 0.
MathCeil(n, d) == -((-n) \div d)

RECURSIVE Pow10(_)
Pow10(k) == IF k = 0 THEN 1 ELSE 10 * Pow10(k - 1)

-----------------------------------------------------------------------------
(* Strings *)

\* String.prototype.includes
Includes(hay, needle) ==
    \E i \in 0..(Len(hay) - Len(needle)) :
        SubSeq(hay, i + 1, i + Len(needle)) = needle

LowerOf(c) ==
    CASE c = "A" -> "a" [] c = "B" -> "b" [] c = "C" -> "c" [] c = "D" -> "d"
      [] c = "E" -> "e" [] c = "F" -> "f" [] c = "G" -> "g" [] c = "H" -> "h"
      [] c = "I" -> "i" [] c = "J" -> "j" [] c = "K" -> "k" [] c = "L" -> "l"
      [] c = "M" -> "m" [] c = "N" -> "n" [] c = "O" -> "o" [] c = "P" -> "p"
      [] c = "Q" -> "q" [] c = "R" -> "r" [] c = "S" -> "s" [] c = "T" -> "t"
      [] c = "U" -> "u" [] c = "V" -> "v" [] c = "W" -> "w" [] c = "X" -> "x"
      [] c = "Y" -> "y" [] c = "Z" -> "z"
      [] OTHER -> c

\* String.prototype.toLowerCase
toLowerCase(s) == [i \in 1..Len(s) |-> LowerOf(s[i])]

StripAccent(c) ==
    CASE c = "a_til" -> "a" [] c = "a_acu" -> "a" [] c = "e_acu" -> "e"
      [] c = "o_acu" -> "o"
      [] OTHER -> c

RECURSIVE CollapseSpaces(_)
CollapseSpaces(s) ==
    IF Len(s) < 2 THEN s
    ELSE IF s[1] = " " /\ s[2] = " " THEN CollapseSpaces(Tail(s))
    ELSE <<s[1]>> \o CollapseSpaces(Tail(s))

RECURSIVE TrimLeft(_)
TrimLeft(s) == IF s # <<>> /\ s[1] = " " THEN TrimLeft(Tail(s)) ELSE s

RECURSIVE TrimRight(_)
TrimRight(s) ==
    IF s # <<>> /\ s[Len(s)] = " " THEN TrimRight(SubSeq(s, 1, Len(s) - 1)) ELSE s

\* utils.ts normalizeText: lower-case, strip accents, collapse whitespace, trim.
normalizeText(s) ==
    TrimRight(TrimLeft(CollapseSpaces(
        [i \in 1..Len(s) |-> StripAccent(LowerOf(s[i]))])))

-----------------------------------------------------------------------------
(* Neighborhood price table, in source (Object.entries) order *)

NEIGHBORHOOD_PRICE_M2 ==
    <<
      [key |-> <<"b","a","t","e","l">>, val |-> 16240],
      [key |-> <<"b","i","g","o","r","r","i","l","h","o">>, val |-> 15061],
      [key |-> <<"c","a","b","r","a","l">>, val |-> 13180],
      [key |-> <<"c","a","m","p","o"," ","c","o","m","p","r","i","d","o">>, val |-> 12450],
      [key |-> <<"a","g","u","a"," ","v","e","r","d","e">>, val |-> 11768],
      [key |-> <<"e","c","o","v","i","l","l","e">>, val |-> 12000],
      [key |-> <<"c","e","n","t","r","o">>, val |-> 10250],
      [key |-> <<"p","o","r","t","a","o">>, val |-> 8331],
      [key |-> <<"n","o","v","o"," ","m","u","n","d","o">>, val |-> 7732],
      [key |-> <<"a","l","t","o"," ","d","a"," ","x","v">>, val |-> 9000],
      [key |-> <<"h","u","g","o"," ","l","a","n","g","e">>, val |-> 8500],
      [key |-> <<"j","u","v","e","v","e">>, val |-> 8800],
      [key |-> <<"r","e","b","o","u","c","a","s">>, val |-> 8500],
      [key |-> <<"c","r","i","s","t","o"," ","r","e","i">>, val |-> 9200],
      [key |-> <<"j","a","r","d","i","m"," ","s","o","c","i","a","l">>, val |-> 7500],
      [key |-> <<"b","o","a"," ","v","i","s","t","a">>, val |-> 6845],
      [key |-> <<"b","a","c","a","c","h","e","r","i">>, val |-> 7200],
      [key |-> <<"t","a","r","u","m","a">>, val |-> 6500],
      [key |-> <<"c","a","j","u","r","u">>, val |-> 5500],
      [key |-> <<"b","o","q","u","e","i","r","a","o">>, val |-> 5800],
      [key |-> <<"a","l","t","o"," ","b","o","q","u","e","i","r","a","o">>, val |-> 5200],
      [key |-> <<"x","a","x","i","m">>, val |-> 5500],
      [key |-> <<"p","i","n","h","e","i","r","i","n","h","o">>, val |-> 5200],
      [key |-> <<"s","i","t","i","o"," ","c","e","r","c","a","d","o">>, val |-> 4800],
      [key |-> <<"c","i","d","a","d","e"," ","i","n","d","u","s","t","r","i","a","l">>, val |-> 7251],
      [key |-> <<"f","a","z","e","n","d","a"," ","r","i","o"," ","g","r","a","n","d","e">>, val |-> 4500],
      [key |-> <<"c","o","l","o","m","b","o">>, val |-> 4800],
      [key |-> <<"s","a","o"," ","j","o","s","e"," ","d","o","s"," ","p","i","n","h","a","i","s">>, val |-> 5800],
      [key |-> <<"p","i","n","h","a","i","s">>, val |-> 5500],
      [key |-> <<"a","r","a","u","c","a","r","i","a">>, val |-> 5200],
      [key |-> <<"c","a","m","p","o"," ","l","a","r","g","o">>, val |-> 4800],
      [key |-> <<"a","l","m","i","r","a","n","t","e"," ","t","a","m","a","n","d","a","r","e">>, val |-> 4200]
    >>

\* adjustedMarketPrice: the type multiplier in percent (100 = none applied).
TypeFactorPct(tipo) ==
    LET tipoLower == toLowerCase(tipo) IN
    IF Includes(tipoLower, <<"c","a","s","a">>) \/ Includes(tipoLower, <<"s","o","b","r","a","d","o">>) THEN 85
    ELSE IF Includes(tipoLower, <<"t","e","r","r","e","n","o">>) THEN 50
    ELSE IF Includes(tipoLower, <<"s","a","l","a">>) \/ Includes(tipoLower, <<"c","o","m","e","r","c","i","a","l">>) THEN 65
    ELSE 100

\* Mutant of adjustedMarketPrice: the 10% haircut is left out.
adjustedMarketPrice_NoHaircut(baseAvg, area, tipo, fonte) ==
    MathRound(baseAvg * TypeFactorPct(tipo), 100)

\* adjusted = baseAvg * 0.90 * typeFactor; return Math.round(adjusted).
adjustedMarketPrice(baseAvg, area, tipo, fonte) ==
    MathRound(baseAvg * 90 * TypeFactorPct(tipo), 100 * 100)

-----------------------------------------------------------------------------
(* extractArea: /([\d.,]+)\s*m/ then parseFloat(match[1].replace(',', '.')) *)

Digits == {"0", "1", "2", "3", "4", "5", "6", "7", "8", "9"}

DigitVal(c) ==
    CASE c = "0" -> 0 [] c = "1" -> 1 [] c = "2" -> 2 [] c = "3" -> 3
      [] c = "4" -> 4 [] c = "5" -> 5 [] c = "6" -> 6 [] c = "7" -> 7
      [] c = "8" -> 8 [] c = "9" -> 9

IsNumCh(c) == c \in Digits \cup {".", ","}

\* Last index of the maximal run of [\d.,] characters that starts at i.
RECURSIVE RunEnd(_, _)
RunEnd(s, i) ==
    IF i < Len(s) /\ IsNumCh(s[i + 1]) THEN RunEnd(s, i + 1) ELSE i

\* \s*m matches right after index j.
RECURSIVE SpacesThenM(_, _)
SpacesThenM(s, j) ==
    IF j >= Len(s) THEN FALSE
    ELSE IF s[j + 1] = " " THEN SpacesThenM(s, j + 1)
    ELSE s[j + 1] = "m"

\* Start indices at which the regular expression matches with a maximal group.
AreaMatchStarts(s) ==
    { i \in 1..Len(s) :
        /\ IsNumCh(s[i])
        /\ (i = 1 \/ ~IsNumCh(s[i - 1]))
        /\ SpacesThenM(s, RunEnd(s, i)) }

\* match[1] of the leftmost match, or None.
AreaMatch(s) ==
    IF AreaMatchStarts(s) = {} THEN None
    ELSE LET i == CHOOSE k \in AreaMatchStarts(s) :
                      \A l \in AreaMatchStarts(s) : k <= l
         IN Some(SubSeq(s, i, RunEnd(s, i)))

\* String.prototype.replace(',', '.'): the first comma only.
RECURSIVE ReplaceFirstComma(_)
ReplaceFirstComma(t) ==
    IF t = <<>> THEN t
    ELSE IF t[1] = "," THEN <<".">> \o Tail(t)
    ELSE <<t[1]>> \o ReplaceFirstComma(Tail(t))

\* Number of leading decimal digits of t.
RECURSIVE DigitPrefix(_)
DigitPrefix(t) ==
    IF t # <<>> /\ t[1] \in Digits THEN 1 + DigitPrefix(Tail(t)) ELSE 0

RECURSIVE DigitsValue(_)
DigitsValue(t) ==
    IF t = <<>> THEN 0
    ELSE 10 * DigitsValue(SubSeq(t, 1, Len(t) - 1)) + DigitVal(t[Len(t)])

\* parseFloat on a string of digits, dots and commas: the longest prefix
\* digits [ "." digits ]; None is NaN.
parseFloat(t) ==
    LET ni   == DigitPrefix(t)
        rest == SubSeq(t, ni + 1, Len(t))
        nf   == IF rest # <<>> /\ rest[1] = "." THEN DigitPrefix(Tail(rest)) ELSE 0
    IN IF ni + nf = 0 THEN None
       ELSE Some([n |-> DigitsValue(SubSeq(t, 1, ni)) * Pow10(nf)
                        + DigitsValue(SubSeq(t, ni + 2, ni + 1 + nf)),
                  d |-> Pow10(nf)])

\* extractArea(areaStr): the area as a number [n, d], or None for null.
extractArea(areaStr) ==
    IF ~IsSome(areaStr) \/ Val(areaStr) = <<>> THEN None
    ELSE LET match == AreaMatch(Val(areaStr)) IN
         IF ~IsSome(match) THEN None
         ELSE LET val == parseFloat(ReplaceFirstComma(Val(match))) IN
              IF IsSome(val) /\ Val(val).n > 0 THEN val ELSE None

-----------------------------------------------------------------------------
(* Neighborhood lookup *)

\* Indices of the table entries related to norm by substring containment.
RelatedKeys(norm) ==
    { i \in 1..Len(NEIGHBORHOOD_PRICE_M2) :
        \/ Includes(norm, NEIGHBORHOOD_PRICE_M2[i].key)
        \/ Includes(NEIGHBORHOOD_PRICE_M2[i].key, norm) }

\* findNeighborhoodBaseAvg(bairro): value of the first entry, in table order,
\* with norm.includes(key) || key.includes(norm); None for null.
findNeighborhoodBaseAvg(bairro) ==
    LET norm == normalizeText(bairro)
        hits == RelatedKeys(norm)
    IN IF hits = {} THEN None
       ELSE Some(NEIGHBORHOOD_PRICE_M2[
                CHOOSE i \in hits : \A j \in hits : i <= j].val)

\* findNeighborhoodAvg(bairro, area, tipo, fonte)
findNeighborhoodAvg(bairro, area, tipo, fonte) ==
    LET base == findNeighborhoodBaseAvg(bairro) IN
    IF ~IsSome(base) \/ Val(base) = 0 THEN None
    ELSE Some(adjustedMarketPrice(Val(base), area, tipo, fonte))

\* expectsParking(tipo)
expectsParking(tipo) ==
    LET lower == toLowerCase(tipo) IN
    \E t \in {<<"a","p","a","r","t","a","m","e","n","t","o">>, <<"c","a","s","a">>, <<"s","o","b","r","a","d","o">>, <<"k","i","t","n","e","t">>} : Includes(lower, t)

-----------------------------------------------------------------------------
(* calculateScore *)

DayHours == 24

Part(name, pts, max, mark) == [name |-> name, pts |-> pts, max |-> max, mark |-> mark]

\* Mutant of DiscPart: the points wrap around above the maximum instead of
\* being capped at it.
DiscPart_Wraps(prop) ==
    LET disc == IF IsSome(prop.desconto) THEN Val(prop.desconto) ELSE 0
    IN Part("Desc", MathRound(disc * 25, 70) % 26, 25, "")

\* 1. Nominal discount: disc = prop.desconto || 0.
DiscPart(prop) ==
    LET disc == IF IsSome(prop.desconto) THEN Val(prop.desconto) ELSE 0
    IN Part("Desc", Min(25, MathRound(disc * 25, 70)), 25, "")

\* Mutant of RealPart: the floor of 0 is dropped.
RealPart_NoFloor(prop) ==
    IF IsSome(prop.descontoReal)
    THEN Part("Real", Min(25, MathRound(Val(prop.descontoReal) * 25, 50)), 25, "")
    ELSE Part("Real", 10, 25, "(?)")

\* 2. Real discount vs market.
RealPart(prop) ==
    IF IsSome(prop.descontoReal)
    THEN Part("Real", Min(25, Max(0, MathRound(Val(prop.descontoReal) * 25, 50))), 25, "")
    ELSE Part("Real", 10, 25, "(?)")

\* 3. Parking.
VagasPart(prop) ==
    IF IsSome(prop.vagas) THEN
        IF Val(prop.vagas) >= 2 THEN Part("Vagas", 15, 15, "")
        ELSE IF Val(prop.vagas) = 1 THEN Part("Vagas", 10, 15, "")
        ELSE Part("Vagas", 0, 15, "no-parking")
    ELSE IF prop.semVagas THEN Part("Vagas", 0, 15, "no-parking")
    ELSE IF expectsParking(prop.tipo) THEN Part("Vagas", 3, 15, "(?)")
    ELSE Part("Vagas", 8, 15, "(n/a)")

\* 4. Priority neighborhood.
BairroPart(prop) ==
    IF prop.prioridade THEN Part("Bairro", 10, 10, "") ELSE Part("Bairro", 3, 10, "")

\* 5. Occupancy.
OcupPart(prop) ==
    IF prop.ocupacao = "desocupado" THEN Part("Ocup", 10, 10, "")
    ELSE IF prop.ocupacao = "ocupado" THEN Part("Ocup", 2, 10, "")
    ELSE Part("Ocup", 5, 10, "(?)")

\* Mutant of PrazoPart: a missing encerramento is dated like new Date(null),
\* the epoch, instead of taking the open-ended branch.
PrazoPart_NullIsEpoch(prop, t) ==
    LET enc == IF IsSome(prop.encerramento) THEN Val(prop.encerramento)
               ELSE [nan |-> FALSE, t |-> 0]
    IN IF enc.nan THEN Part("Prazo", 2, 15, "")
       ELSE LET daysUntil == MathCeil(enc.t - t, DayHours) IN
            IF daysUntil <= 3 THEN Part("Prazo", 15, 15, "")
            ELSE IF daysUntil <= 7 THEN Part("Prazo", 12, 15, "")
            ELSE IF daysUntil <= 14 THEN Part("Prazo", 8, 15, "")
            ELSE IF daysUntil <= 30 THEN Part("Prazo", 5, 15, "")
            ELSE Part("Prazo", 2, 15, "")

\* 6. Auction closing proximity.  An encerramento that Date cannot parse gives
\* daysUntil = NaN: every comparison is false and the last branch is taken.
PrazoPart(prop, t) ==
    IF IsSome(prop.encerramento) THEN
        LET enc == Val(prop.encerramento) IN
        IF enc.nan THEN Part("Prazo", 2, 15, "")
        ELSE LET daysUntil == MathCeil(enc.t - t, DayHours) IN
             IF daysUntil <= 3 THEN Part("Prazo", 15, 15, "")
             ELSE IF daysUntil <= 7 THEN Part("Prazo", 12, 15, "")
             ELSE IF daysUntil <= 14 THEN Part("Prazo", 8, 15, "")
             ELSE IF daysUntil <= 30 THEN Part("Prazo", 5, 15, "")
             ELSE Part("Prazo", 2, 15, "")
    ELSE Part("Prazo", 7, 15, "(aberto)")

RECURSIVE SumPts(_)
SumPts(parts) == IF parts = <<>> THEN 0 ELSE parts[1].pts + SumPts(Tail(parts))

\* calculateScore(prop) at instant t: score = Math.min(100, sum).
calculateScore(prop, t) ==
    LET parts == <<DiscPart(prop), RealPart(prop), VagasPart(prop),
                   BairroPart(prop), OcupPart(prop), PrazoPart(prop, t)>>
    IN [score |-> Min(100, SumPts(parts)), breakdown |-> parts]

-----------------------------------------------------------------------------
(* enrichProperty *)

Alert(kind, p, avg) == [kind |-> kind, precoM2 |-> p, avgM2 |-> avg]

NumToks == {"5", "12", "123", "456"}
NToks == {"N", "No"}
VagaWords == {"VAGA", "VAGAS", "GARAGEM"}

\* /VAGA\s*(DE\s*(ESTACIONAMENTO|GARAGEM))?\s*(?:N[..]?\s*)?(\d+)/i on the
\* address, token by token: VAGA [DE ESTACIONAMENTO|GARAGEM] [N] <digits>.
AddrVagaNumbered(endereco) ==
    \E i \in 1..Len(endereco) :
        /\ endereco[i] = "VAGA"
        /\ \E a \in {0, 2}, b \in {0, 1} :
              /\ i + a + b + 1 <= Len(endereco)
              /\ a = 2 => /\ endereco[i + 1] = "DE"
                          /\ endereco[i + 2] \in {"ESTACIONAMENTO", "GARAGEM"}
              /\ b = 1 => endereco[i + a + 1] \in NToks
              /\ endereco[i + a + b + 1] \in NumToks

\* /VAGA|GARAG/i.test(prop.endereco || '')
AddrHasVaga(endereco) ==
    \E i \in 1..Len(endereco) : endereco[i] \in VagaWords

\* Parse vagas from the address: if (!enriched.vagas) and the address has a
\* numbered VAGA, vagas = 1.
InferVagas(prop) ==
    IF (~IsSome(prop.vagas) \/ Val(prop.vagas) = 0) /\ AddrVagaNumbered(prop.endereco)
    THEN Some(1) ELSE prop.vagas

\* The "vagas not informed" warning for Caixa records.
ParkingAlerts(prop, vagas) ==
    IF /\ expectsParking(prop.tipo) /\ ~IsSome(vagas) /\ ~prop.semVagas
       /\ prop.fonte = "Caixa"
       /\ ~AddrHasVaga(prop.endereco)
       /\ IsSome(prop.area) /\ Val(prop.area) # <<>>
       /\ ~Includes(Val(prop.area), <<"t","e","r","r","e","n","o",":">>)
    THEN <<Alert("VagasNaoInformadasDescricao", 0, 0)>>
    ELSE <<>>

\* Mutant of AreaUsable: the floor of 10 is dropped (any positive area).
AreaUsable_NoFloor(area) == IsSome(area)

\* if (area && area > 10)
AreaUsable(area) == IsSome(area) /\ Val(area).n > 10 * Val(area).d

\* Mutant of MarketAlerts: one warning for every negative descontoReal.
MarketAlerts_SingleThreshold(descontoReal, precoM2, avgM2) ==
    IF descontoReal < 0 THEN <<Alert("AcimaDoMercado", precoM2, avgM2)>> ELSE <<>>

\* The warnings pushed after descontoReal is computed.
MarketAlerts(descontoReal, precoM2, avgM2) ==
    IF descontoReal < -20 THEN <<Alert("AcimaDoMercado", precoM2, avgM2)>>
    ELSE IF descontoReal < 0 THEN <<Alert("ProximoDoMercado", precoM2, avgM2)>>
    ELSE <<>>

\* Mutant of PrecoM2Of: precoM2 is set only when the baseline is known.
PrecoM2Of_NeedsBaseline(prop, area, avgM2) ==
    IF AreaUsable(area) /\ IsSome(avgM2)
    THEN Some(MathRound(prop.lance * Val(area).d, Val(area).n)) ELSE None

\* enriched.precoM2 = Math.round(prop.lance / area) inside the area guard.
PrecoM2Of(prop, area, avgM2) ==
    IF AreaUsable(area)
    THEN Some(MathRound(prop.lance * Val(area).d, Val(area).n)) ELSE None

\* Mutant of enrichProperty: the alert list starts empty instead of as a copy
\* of prop.alertas.
enrichProperty_FreshAlerts(prop, t) ==
    LET area     == extractArea(prop.area)
        vagas    == InferVagas(prop)
        avgM2    == IF AreaUsable(area)
                    THEN findNeighborhoodAvg(prop.bairro, area, prop.tipo, prop.fonte)
                    ELSE None
        precoM2  == PrecoM2Of(prop, area, avgM2)
        hasAvg   == IsSome(precoM2) /\ IsSome(avgM2) /\ Val(avgM2) # 0
        dReal    == IF hasAvg
                    THEN Some(MathRound((Val(avgM2) - Val(precoM2)) * 100, Val(avgM2)))
                    ELSE prop.descontoReal
        alertas  == <<>>
                    \o ParkingAlerts(prop, vagas)
                    \o (IF hasAvg THEN MarketAlerts(Val(dReal), Val(precoM2), Val(avgM2))
                        ELSE <<>>)
        enriched == [prop EXCEPT !.vagas = vagas,
                                 !.precoM2 = IF IsSome(precoM2) THEN precoM2 ELSE prop.precoM2,
                                 !.mediaM2Bairro = IF hasAvg THEN avgM2 ELSE prop.mediaM2Bairro,
                                 !.descontoReal = dReal,
                                 !.alertas = alertas]
        sc       == calculateScore(enriched, t)
    IN [enriched EXCEPT !.score = Some(sc.score), !.scoreBreakdown = sc.breakdown]

\* enrichProperty(prop), scored at instant t.
enrichProperty(prop, t) ==
    LET area     == extractArea(prop.area)
        vagas    == InferVagas(prop)
        avgM2    == IF AreaUsable(area)
                    THEN findNeighborhoodAvg(prop.bairro, area, prop.tipo, prop.fonte)
                    ELSE None
        precoM2  == PrecoM2Of(prop, area, avgM2)
        hasAvg   == IsSome(precoM2) /\ IsSome(avgM2) /\ Val(avgM2) # 0
        dReal    == IF hasAvg
                    THEN Some(MathRound((Val(avgM2) - Val(precoM2)) * 100, Val(avgM2)))
                    ELSE prop.descontoReal
        alertas  == prop.alertas
                    \o ParkingAlerts(prop, vagas)
                    \o (IF hasAvg THEN MarketAlerts(Val(dReal), Val(precoM2), Val(avgM2))
                        ELSE <<>>)
        enriched == [prop EXCEPT !.vagas = vagas,
                                 !.precoM2 = IF IsSome(precoM2) THEN precoM2 ELSE prop.precoM2,
                                 !.mediaM2Bairro = IF hasAvg THEN avgM2 ELSE prop.mediaM2Bairro,
                                 !.descontoReal = dReal,
                                 !.alertas = alertas]
        sc       == calculateScore(enriched, t)
    IN [enriched EXCEPT !.score = Some(sc.score), !.scoreBreakdown = sc.breakdown]

-----------------------------------------------------------------------------
(* Input records of the enrichment harness *)

\* Area strings as the scrapers write them, each with the number it denotes
\* (None when it denotes no number).
AreaSamples ==
    {
      [str |-> <<"5","0","m","sup2">>,
       num |-> Some([n |-> 50, d |-> 1])],
      [str |-> <<"1","0","m","sup2">>,
       num |-> Some([n |-> 10, d |-> 1])],
      [str |-> <<"1","0",",","5","m","sup2">>,
       num |-> Some([n |-> 105, d |-> 10])],
      [str |-> <<"9",".","9","9"," ","m","sup2">>,
       num |-> Some([n |-> 999, d |-> 100])],
      [str |-> <<"0","m","sup2">>,
       num |-> Some([n |-> 0, d |-> 1])],
      [str |-> <<"a","b","c">>,
       num |-> None],
      [str |-> <<".","m">>,
       num |-> None],
      [str |-> <<"4","6",".","2","7","m","sup2"," ","(","t","e","r","r","e","n","o",":"," ","1","8","0",".","0","0","m","sup2",")">>,
       num |-> Some([n |-> 4627, d |-> 100])],
      [str |-> <<"t","e","r","r","e","n","o",":"," ","1","8","0",".","0","0","m","sup2">>,
       num |-> Some([n |-> 180, d |-> 1])],
      [str |-> <<"1",".","2","0","0",",","5","m","sup2">>,
       num |-> Some([n |-> 12005, d |-> 10])],
      [str |-> <<>>,
       num |-> None]
    }

BairroSamples ==
    { <<"B","a","t","e","l">>,
      <<"A","l","t","o"," ","B","o","q","u","e","i","r","a_til","o">>,
      <<"P","i","n","h","a","i","s">>,
      <<"S","a_til","o"," ","J","o","s","e_acu"," ","d","o","s"," ","P","i","n","h","a","i","s">>,
      <<"C","e","n","t","r","o"," ","(","P","i","n","h","a","i","s",")">>,
      <<"X","y","z">>,
      <<>> }

TipoSamples ==
    { <<"A","p","a","r","t","a","m","e","n","t","o">>, <<"C","a","s","a">>, <<"S","o","b","r","a","d","o">>, <<"T","e","r","r","e","n","o">>, <<"S","a","l","a">>,
      <<"I","m","o_acu","v","e","l"," ","C","o","m","e","r","c","i","a","l">>, <<"L","o","j","a">> }

LanceSamples == {300000, 730800, 738000, 877000, 884250, 2000000}

\* desconto as a scraper emits it: null, a listed percentage, or
\* Math.round((1 - lance / avaliacao) * 100), negative when lance > avaliacao.
DescontoSamples == {None} \cup {Some(d) : d \in {-300, -21, 0, 40, 70, 95}}

MaxVagas == 2
MaxNowDays == 1

VagasSamples == {None} \cup {Some(v) : v \in 0..MaxVagas}

NowSamples == {d * 60 : d \in 0..MaxNowDays}

EncerramentoSamples ==
    {None, Some([nan |-> TRUE, t |-> 0])}
        \cup {Some([nan |-> FALSE, t |-> h]) : h \in {96, 240, 600, 960}}

DefaultRec ==
    [id |-> "p1", tipo |-> <<"A","p","a","r","t","a","m","e","n","t","o">>, bairro |-> <<"B","a","t","e","l">>,
     endereco |-> <<"RUA", "A", "123">>, lance |-> 300000, desconto |-> Some(40),
     encerramento |-> None, ocupacao |-> "desconhecido",
     area |-> Some(<<"5","0","m","sup2">>), fonte |-> "Zuk", novo |-> FALSE,
     prioridade |-> FALSE, semVagas |-> FALSE, alertas |-> <<>>, vagas |-> None,
     precoM2 |-> None, mediaM2Bairro |-> None, descontoReal |-> None,
     score |-> None, scoreBreakdown |-> <<>>]

\* Records that vary what market enrichment reads.
MarketInputs ==
    { [DefaultRec EXCEPT !.tipo = tp, !.bairro = b, !.area = a, !.lance = l, !.fonte = f]
        : tp \in TipoSamples, b \in BairroSamples,
          a \in {None} \cup {Some(x.str) : x \in AreaSamples},
          l \in LanceSamples, f \in {"Zuk", "Caixa"} }

\* Market situations of the scoring inputs: no baseline, far above market,
\* far below market.
MarketCases ==
    { [bairro |-> <<"X","y","z">>, lance |-> 300000],
      [bairro |-> <<"B","a","t","e","l">>, lance |-> 2000000],
      [bairro |-> <<"B","a","t","e","l">>, lance |-> 300000] }

\* Type, source and address combinations that decide the parking rules.
ParkingCases ==
    { [tipo |-> <<"A","p","a","r","t","a","m","e","n","t","o">>, fonte |-> "Zuk", endereco |-> <<"RUA", "A", "123">>],
      [tipo |-> <<"A","p","a","r","t","a","m","e","n","t","o">>, fonte |-> "Caixa", endereco |-> <<"RUA", "A", "123">>],
      [tipo |-> <<"A","p","a","r","t","a","m","e","n","t","o">>, fonte |-> "Caixa",
       endereco |-> <<"RUA", "B", "456", "VAGA", "DE", "GARAGEM", "N", "12">>],
      [tipo |-> <<"C","a","s","a">>, fonte |-> "Caixa", endereco |-> <<"RUA", "C", "5", "GARAGEM">>],
      [tipo |-> <<"T","e","r","r","e","n","o">>, fonte |-> "Zuk", endereco |-> <<"RUA", "A", "123">>] }

\* Records that vary what the scoring engine reads.
ScoreInputs ==
    { [DefaultRec EXCEPT !.desconto = d, !.vagas = v, !.semVagas = sv,
                         !.prioridade = pr, !.ocupacao = oc, !.encerramento = en,
                         !.endereco = pk.endereco, !.tipo = pk.tipo, !.fonte = pk.fonte,
                         !.bairro = mc.bairro, !.lance = mc.lance,
                         !.alertas = IF sv THEN <<Alert("SemVagas", 0, 0)>> ELSE <<>>]
        : d \in DescontoSamples, v \in VagasSamples, sv \in BOOLEAN,
          pr \in BOOLEAN, oc \in {"desocupado", "ocupado", "desconhecido"},
          en \in EncerramentoSamples, pk \in ParkingCases, mc \in MarketCases }

InputRecords == MarketInputs \cup ScoreInputs

-----------------------------------------------------------------------------
(* Enrichment harness: one record drawn from InputRecords is enriched *)

EnrichInit ==
    /\ phase = "input"
    /\ rec \in [inp : InputRecords, out : {None}]
    /\ now \in NowSamples
    /\ pc = "idle"
    /\ src = <<>>
    /\ sources = <<>>
    /\ props = <<>>
    /\ enrichedList = <<>>
    /\ overrides = <<>>
    /\ files = <<>>
    /\ today = 0
    /\ runs = 0
    /\ pages = {}
    /\ pushed = "none"
    /\ steps = <<>>
    /\ zuk = Idle
    /\ cx = Idle

EnrichOne ==
    /\ phase = "input"
    /\ phase' = "enriched"
    /\ rec' = [rec EXCEPT !.out = Some(enrichProperty(rec.inp, now))]
    /\ UNCHANGED <<now, runVars, scraperVars>>

EnrichNext == EnrichOne

EnrichSpec == EnrichInit /\ [][EnrichNext]_vars

-----------------------------------------------------------------------------
(* deduplicate.ts: deduplicateProperties and markNewProperties *)

RECURSIVE Flatten(_)
Flatten(lists) == IF lists = <<>> THEN <<>> ELSE lists[1] \o Flatten(Tail(lists))

SetOf(seq) == {seq[i] : i \in DOMAIN seq}

IsNumTok(tok) == tok \in NumToks \cup {"1", "2", "3"}

\* Token-set (Jaccard) similarity of two addresses is at least 3/5.
AddressSimilar(a, b) ==
    5 * Cardinality(SetOf(a) \cap SetOf(b)) >= 3 * Cardinality(SetOf(a) \cup SetOf(b))

\* Prices within 1% of each other.
PriceClose(x, y) ==
    LET d == IF x >= y THEN x - y ELSE y - x IN 100 * d <= Max(x, y)

\* The street number of one address occurs in the other address.
StreetNumberShared(a, b) ==
    \E t \in SetOf(a) \cap SetOf(b) : IsNumTok(t)

\* Mutant of Match: the neighborhoods of the two records are not compared.
Match_IgnoresBairro(x, y) ==
    /\ normalizeText(x.bairro) # <<>>
    /\ x.endereco # <<>> /\ y.endereco # <<>>
    /\ \/ AddressSimilar(x.endereco, y.endereco) /\ PriceClose(x.lance, y.lance)
       \/ StreetNumberShared(x.endereco, y.endereco)

\* The matching rule of the identity resolver.
Match(x, y) ==
    /\ normalizeText(x.bairro) # <<>>
    /\ x.endereco # <<>> /\ y.endereco # <<>>
    /\ normalizeText(x.bairro) = normalizeText(y.bairro)
    /\ \/ AddressSimilar(x.endereco, y.endereco) /\ PriceClose(x.lance, y.lance)
       \/ StreetNumberShared(x.endereco, y.endereco)

\* Mutant of Closure: only the direct matches of S, no transitive step.
Closure_OneStep(all, S) ==
    S \cup { j \in DOMAIN all : \E i \in S : Match(all[i], all[j]) }

\* Indices reachable from the set S through pairwise matches.
RECURSIVE Closure(_, _)
Closure(all, S) ==
    LET T == S \cup { j \in DOMAIN all : \E i \in S : Match(all[i], all[j]) }
    IN IF T = S THEN S ELSE Closure(all, T)

\* The cluster (connected component) of index i.
ClusterOf(all, i) == Closure(all, {i})

SourceRank(fonte) ==
    CASE fonte = "Caixa" -> 0 [] fonte = "Zuk" -> 1 [] OTHER -> 2

\* Rank of a member as representative: occupancy known, then area present,
\* then source priority, then position.
RepKey(all, i) ==
    (IF all[i].ocupacao # "desconhecido" THEN 0 ELSE 400)
      + (IF IsSome(all[i].area) THEN 0 ELSE 200)
      + SourceRank(all[i].fonte) * 50 + i

Representative(all, C) == CHOOSE i \in C : \A j \in C : RepKey(all, i) <= RepKey(all, j)

\* Cluster members in iteration (index) order.
RECURSIVE Members(_, _)
Members(C, n) ==
    IF n = 0 THEN <<>>
    ELSE Members(C, n - 1) \o (IF n \in C THEN <<n>> ELSE <<>>)

\* First member value that is present, for backfilling.
RECURSIVE FirstSome(_)
FirstSome(opts) ==
    IF opts = <<>> THEN None
    ELSE IF IsSome(opts[1]) THEN opts[1] ELSE FirstSome(Tail(opts))

\* Union of alert lists, first occurrences kept in order.
RECURSIVE UnionAlerts(_, _)
UnionAlerts(acc, rest) ==
    IF rest = <<>> THEN acc
    ELSE UnionAlerts(IF rest[1] \in SetOf(acc) THEN acc ELSE Append(acc, rest[1]),
                     Tail(rest))

Canonical(all, C) ==
    LET r  == all[Representative(all, C)]
        ms == Members(C, Len(all))
        others(f(_)) == [k \in 1..Len(ms) |-> f(all[ms[k]])]
        Area(x) == x.area
        Desc(x) == x.desconto
        Enc(x)  == x.encerramento
        Vag(x)  == x.vagas
    IN [r EXCEPT
          !.area = IF IsSome(r.area) THEN r.area ELSE FirstSome(others(Area)),
          !.desconto = IF IsSome(r.desconto) THEN r.desconto ELSE FirstSome(others(Desc)),
          !.encerramento = IF IsSome(r.encerramento) THEN r.encerramento
                           ELSE FirstSome(others(Enc)),
          !.vagas = IF IsSome(r.vagas) THEN r.vagas ELSE FirstSome(others(Vag)),
          !.alertas = UnionAlerts(r.alertas,
                          Flatten([k \in 1..Len(ms) |-> all[ms[k]].alertas]))]

\* One canonical record per cluster, clusters in order of their first member.
RECURSIVE CanonicalFrom(_, _)
CanonicalFrom(all, i) ==
    IF i > Len(all) THEN <<>>
    ELSE LET C == ClusterOf(all, i) IN
         (IF \A j \in C : i <= j THEN <<Canonical(all, C)>> ELSE <<>>)
            \o CanonicalFrom(all, i + 1)

deduplicateProperties(srcs) == CanonicalFrom(Flatten(srcs), 1)

\* markNewProperties(current, previous): novo = no record of previous has the id.
markNewProperties(current, previous) ==
    [i \in 1..Len(current) |->
        [current[i] EXCEPT !.novo = \A j \in DOMAIN previous :
                                        previous[j].id # current[i].id]]

-----------------------------------------------------------------------------
(* enrichProperties *)

ScoreOf(p) == IF IsSome(p.score) THEN Val(p.score) ELSE 0

\* Mutant of InsertByScore: the comparator is (a, b) => a.score - b.score.
RECURSIVE InsertByScore_Ascending(_, _)
InsertByScore_Ascending(sorted, p) ==
    IF sorted = <<>> THEN <<p>>
    ELSE IF ScoreOf(sorted[1]) <= ScoreOf(p)
         THEN <<sorted[1]>> \o InsertByScore_Ascending(Tail(sorted), p)
         ELSE <<p>> \o sorted

\* Array.prototype.sort with (a, b) => b.score - a.score: stable, descending.
RECURSIVE InsertByScore(_, _)
InsertByScore(sorted, p) ==
    IF sorted = <<>> THEN <<p>>
    ELSE IF ScoreOf(sorted[1]) >= ScoreOf(p)
         THEN <<sorted[1]>> \o InsertByScore(Tail(sorted), p)
         ELSE <<p>> \o sorted

RECURSIVE SortByScore(_)
SortByScore(list) ==
    IF list = <<>> THEN <<>>
    ELSE InsertByScore(SortByScore(SubSeq(list, 1, Len(list) - 1)), list[Len(list)])

\* enrichProperties(properties) at instant t.
enrichProperties(properties, t) ==
    SortByScore([i \in 1..Len(properties) |-> enrichProperty(properties[i], t)])

-----------------------------------------------------------------------------
(* runDaily: inputs *)

Scrapers == <<"zuk", "leilao", "caixa">>

MaxListLen == 2

ZukRecords ==
    << [DefaultRec EXCEPT !.id = "zuk-1", !.ocupacao = "ocupado",
                          !.encerramento = Some([nan |-> FALSE, t |-> 240])],
       [DefaultRec EXCEPT !.id = "zuk-2", !.tipo = <<"C","a","s","a">>, !.bairro = <<"X","y","z">>,
                          !.endereco = <<"RUA", "C", "5", "GARAGEM">>,
                          !.lance = 730800, !.desconto = None],
       [DefaultRec EXCEPT !.id = "zuk-3", !.tipo = <<"T","e","r","r","e","n","o">>, !.bairro = <<"P","i","n","h","a","i","s">>,
                          !.endereco = <<"RUA", "D", "1">>, !.area = None,
                          !.lance = 877000, !.desconto = Some(70)] >>

LeilaoRecords ==
    << [DefaultRec EXCEPT !.id = "li-1", !.fonte = "LeilaoImovel",
                          !.bairro = <<"B","a","t","e","l">>, !.endereco = <<"RUA", "B", "456">>,
                          !.lance = 2000000, !.ocupacao = "desocupado",
                          !.prioridade = TRUE, !.desconto = Some(95)],
       [DefaultRec EXCEPT !.id = "li-2", !.fonte = "LeilaoImovel",
                          !.bairro = <<"C","e","n","t","r","o"," ","(","P","i","n","h","a","i","s",")">>,
                          !.endereco = <<"RUA", "E", "2">>, !.lance = 738000],
       [DefaultRec EXCEPT !.id = "li-3", !.fonte = "LeilaoImovel",
                          !.bairro = <<"X","y","z">>, !.endereco = <<"RUA", "F", "3">>,
                          !.area = Some(<<"1","0","m","sup2">>)] >>

CaixaRecords ==
    << [DefaultRec EXCEPT !.id = "caixa-1", !.fonte = "Caixa", !.lance = 300500,
                          !.area = None, !.vagas = Some(0), !.semVagas = TRUE,
                          !.alertas = <<Alert("SemVagas", 0, 0)>>],
       [DefaultRec EXCEPT !.id = "caixa-2", !.fonte = "Caixa",
                          !.bairro = <<"A","l","t","o"," ","B","o","q","u","e","i","r","a_til","o">>,
                          !.endereco = <<"RUA", "G", "12">>, !.lance = 884250,
                          !.alertas = <<Alert("VagasNaoInformadas", 0, 0)>>],
       [DefaultRec EXCEPT !.id = "caixa-3", !.fonte = "Caixa", !.tipo = <<"S","a","l","a">>,
                          !.bairro = <<"S","a_til","o"," ","J","o","s","e_acu"," ","d","o","s"," ","P","i","n","h","a","i","s">>,
                          !.endereco = <<"RUA", "H", "3">>, !.vagas = Some(2)] >>

RecordsOf(s) ==
    CASE s = "zuk" -> ZukRecords [] s = "leilao" -> LeilaoRecords [] OTHER -> CaixaRecords

\* The lists a scraper can return: the first k records it finds.
ListsOf(s) ==
    { SubSeq(RecordsOf(s), 1, k) : k \in 0..Min(MaxListLen, Len(RecordsOf(s))) }

\* The state of a scraper's promise.
Pending == [status |-> "pending", value |-> <<>>]
Hung == [status |-> "hung", value |-> <<>>]
Rejected == [status |-> "rejected", value |-> <<>>]
Fulfilled(list) == [status |-> "fulfilled", value |-> list]

Settled(p) == p.status \in {"fulfilled", "rejected"}

\* An entry of property-overrides.json.  alertas is "none" (absent), "list"
\* (an array of strings) or "notIterable" (a truthy value that cannot be spread).
OverrideEntry(sv, kind) ==
    [semVagas |-> sv, alertas |-> kind,
     list |-> IF kind = "list" THEN <<Alert("Override", 0, 0)>> ELSE <<>>]

\* property-overrides.json: absent, not JSON, or an id -> entry mapping.
OverrideFiles ==
    { [state |-> "missing", map |-> <<>>],
      [state |-> "corrupt", map |-> <<>>],
      [state |-> "ok", map |-> <<[id |-> "zuk-1", entry |-> OverrideEntry(TRUE, "list")],
                                 [id |-> "nobody", entry |-> OverrideEntry(TRUE, "list")]>>],
      [state |-> "ok", map |-> <<[id |-> "zuk-1", entry |-> OverrideEntry(TRUE, "none")],
                                 [id |-> "li-1", entry |-> OverrideEntry(TRUE, "notIterable")],
                                 [id |-> "caixa-2", entry |-> OverrideEntry(FALSE, "list")]>>] }

\* What data/<yesterday>.json can hold when the run starts.
PreviousSnapshots ==
    { None,
      Some(<<>>),
      Some(<<[ZukRecords[1] EXCEPT !.score = Some(50)]>>) }

MaxDay == 1

-----------------------------------------------------------------------------
(* runDaily: steps *)

\* overrides[prop.id]
OverrideFor(map, id) ==
    IF \E k \in DOMAIN map : map[k].id = id
    THEN Some(map[CHOOSE k \in DOMAIN map : map[k].id = id].entry)
    ELSE None

\* Mutant of ApplyOverrideLoop: the entry's values are assigned (semVagas as
\* given, alertas replaced) instead of merged.
RECURSIVE ApplyOverrideLoop_Assigns(_, _, _)
ApplyOverrideLoop_Assigns(map, list, i) ==
    IF i > Len(list) THEN list
    ELSE LET o == OverrideFor(map, list[i].id) IN
         IF ~IsSome(o) THEN ApplyOverrideLoop_Assigns(map, list, i + 1)
         ELSE LET e  == Val(o)
                  p1 == [list[i] EXCEPT !.semVagas = e.semVagas]
              IN IF e.alertas = "notIterable" THEN [list EXCEPT ![i] = p1]
                 ELSE LET p2 == IF e.alertas = "list"
                                THEN [p1 EXCEPT !.alertas = e.list]
                                ELSE p1
                      IN ApplyOverrideLoop_Assigns(map, [list EXCEPT ![i] = p2], i + 1)

\* The override loop over withNewFlags.  An entry whose alertas cannot be
\* spread throws after its semVagas was applied; the catch ends the loop.
RECURSIVE ApplyOverrideLoop(_, _, _)
ApplyOverrideLoop(map, list, i) ==
    IF i > Len(list) THEN list
    ELSE LET o == OverrideFor(map, list[i].id) IN
         IF ~IsSome(o) THEN ApplyOverrideLoop(map, list, i + 1)
         ELSE LET e  == Val(o)
                  p1 == IF e.semVagas THEN [list[i] EXCEPT !.semVagas = TRUE] ELSE list[i]
              IN IF e.alertas = "notIterable" THEN [list EXCEPT ![i] = p1]
                 ELSE LET p2 == IF e.alertas = "list"
                                THEN [p1 EXCEPT !.alertas = p1.alertas \o e.list]
                                ELSE p1
                      IN ApplyOverrideLoop(map, [list EXCEPT ![i] = p2], i + 1)

\* Step 3.5 as a whole.
ApplyOverridesTo(file, list) ==
    IF file.state = "ok" THEN ApplyOverrideLoop(file.map, list, 1) ELSE list

\* Mutant of CollectSources: every fulfilled list is pushed, empty or not.
RECURSIVE CollectSources_KeepEmpty(_, _)
CollectSources_KeepEmpty(results, i) ==
    IF i > Len(Scrapers) THEN <<>>
    ELSE (IF results[Scrapers[i]].status = "fulfilled"
          THEN <<results[Scrapers[i]].value>> ELSE <<>>)
            \o CollectSources_KeepEmpty(results, i + 1)

\* Mutant of CollectSources: all-or-nothing (Promise.all): one rejection
\* discards every list.
RECURSIVE CollectSources_AllOrNothing(_, _)
CollectSources_AllOrNothing(results, i) ==
    IF \E s \in DOMAIN results : results[s].status = "rejected" THEN <<>>
    ELSE IF i > Len(Scrapers) THEN <<>>
    ELSE (IF Len(results[Scrapers[i]].value) > 0
          THEN <<results[Scrapers[i]].value>> ELSE <<>>)
            \o CollectSources_AllOrNothing(results, i + 1)

\* Step 1, collecting: the non-empty lists of the fulfilled promises, in the
\* order zuk, leilao, caixa.
RECURSIVE CollectSources(_, _)
CollectSources(results, i) ==
    IF i > Len(Scrapers) THEN <<>>
    ELSE (IF /\ results[Scrapers[i]].status = "fulfilled"
             /\ Len(results[Scrapers[i]].value) > 0
          THEN <<results[Scrapers[i]].value>> ELSE <<>>)
            \o CollectSources(results, i + 1)

Init ==
    /\ phase = "idle"
    /\ rec = [inp |-> DefaultRec, out |-> None]
    /\ now = 0
    /\ pc = "scrapers"
    /\ src = [s \in SetOf(Scrapers) |-> Pending]
    /\ sources = <<>>
    /\ props = <<>>
    /\ enrichedList = <<>>
    /\ overrides \in OverrideFiles
    /\ today = MaxDay
    /\ runs = 1
    /\ files \in { [d \in 0..MaxDay |-> IF d = MaxDay - 1 THEN prev ELSE None]
                     : prev \in PreviousSnapshots }
    /\ pages = {}
    /\ pushed = "none"
    /\ steps = <<>>
    /\ zuk = Idle
    /\ cx = Idle

\* A scraper's promise fulfils with the list it built.
Fulfil(s) ==
    /\ pc = "scrapers" /\ src[s].status = "pending"
    /\ \E list \in ListsOf(s) : src' = [src EXCEPT ![s] = Fulfilled(list)]
    /\ UNCHANGED <<phase, rec, now, runs, zuk, cx, pc, sources, props, enrichedList, overrides, files,
                   today, pages, pushed, steps>>

\* A scraper's promise rejects.
Reject(s) ==
    /\ pc = "scrapers" /\ src[s].status = "pending"
    /\ src' = [src EXCEPT ![s] = Rejected]
    /\ UNCHANGED <<phase, rec, now, runs, zuk, cx, pc, sources, props, enrichedList, overrides, files,
                   today, pages, pushed, steps>>

\* A scraper's request never completes: fetch is called without a timeout or
\* an abort signal, so its promise stays pending for ever.
Hang(s) ==
    /\ pc = "scrapers" /\ src[s].status = "pending"
    /\ src' = [src EXCEPT ![s] = Hung]
    /\ UNCHANGED <<phase, rec, now, runs, zuk, cx, pc, sources, props, enrichedList, overrides, files,
                   today, pages, pushed, steps>>

\* await Promise.allSettled([...]) resumes once all three promises settled;
\* the results are collected and the run aborts when no list was collected.
CollectResults ==
    /\ pc = "scrapers"
    /\ \A s \in SetOf(Scrapers) : Settled(src[s])
    /\ sources' = CollectSources(src, 1)
    /\ pc' = IF Len(sources') = 0 THEN "aborted" ELSE "dedup"
    /\ UNCHANGED <<phase, rec, now, runs, zuk, cx, src, props, enrichedList, overrides, files, today,
                   pages, pushed, steps>>

\* Step 2.
Deduplicate ==
    /\ pc = "dedup"
    /\ props' = deduplicateProperties(sources)
    /\ steps' = Append(steps, "dedup")
    /\ pc' = "mark"
    /\ UNCHANGED <<phase, rec, now, runs, zuk, cx, src, sources, enrichedList, overrides, files, today,
                   pages, pushed>>

\* Mutant of MarkNew: yesterday's file is never loaded (previousProperties
\* stays empty).
MarkNew_NoPrevious ==
    /\ pc = "mark"
    /\ props' = markNewProperties(props, <<>>)
    /\ steps' = Append(steps, "novelty")
    /\ pc' = "overrides"
    /\ UNCHANGED <<phase, rec, now, runs, zuk, cx, src, sources, enrichedList, overrides, files, today,
                   pages, pushed>>

\* Step 3: yesterday's file, when it exists, gives previousProperties.
MarkNew ==
    /\ pc = "mark"
    /\ LET yesterdayFile == files[today - 1]
           previousProperties == IF IsSome(yesterdayFile) THEN Val(yesterdayFile) ELSE <<>>
       IN props' = markNewProperties(props, previousProperties)
    /\ steps' = Append(steps, "novelty")
    /\ pc' = "overrides"
    /\ UNCHANGED <<phase, rec, now, runs, zuk, cx, src, sources, enrichedList, overrides, files, today,
                   pages, pushed>>

\* Step 3.5.
ApplyOverrides ==
    /\ pc = "overrides"
    /\ props' = ApplyOverridesTo(overrides, props)
    /\ steps' = Append(steps, "overrides")
    /\ pc' = "enrich"
    /\ UNCHANGED <<phase, rec, now, runs, zuk, cx, src, sources, enrichedList, overrides, files, today,
                   pages, pushed>>

\* Step 4.
Enrich ==
    /\ pc = "enrich"
    /\ enrichedList' = enrichProperties(props, now)
    /\ steps' = Append(steps, "enrich")
    /\ pc' = "save"
    /\ UNCHANGED <<phase, rec, now, runs, zuk, cx, src, sources, props, overrides, files, today,
                   pages, pushed>>

\* Mutant of SaveSnapshot: the snapshot is written before enrichment, from
\* withNewFlags.
SaveSnapshot_BeforeEnrich ==
    /\ pc = "enrich"
    /\ files' = [files EXCEPT ![today] = Some(props)]
    /\ steps' = Append(steps, "save")
    /\ pc' = "html"
    /\ UNCHANGED <<phase, rec, now, runs, zuk, cx, src, sources, props, enrichedList, overrides, today,
                   pages, pushed>>

\* Step 5: Bun.write(todayFile, JSON.stringify(enriched)).
SaveSnapshot ==
    /\ pc = "save"
    /\ files' = [files EXCEPT ![today] = Some(enrichedList)]
    /\ steps' = Append(steps, "save")
    /\ pc' = "html"
    /\ UNCHANGED <<phase, rec, now, runs, zuk, cx, src, sources, props, enrichedList, overrides, today,
                   pages, pushed>>

\* Step 6: <today>.html and index.html.
GenerateHTML ==
    /\ pc = "html"
    /\ pages' = pages \cup {"today", "index"}
    /\ steps' = Append(steps, "html")
    /\ pc' = "git"
    /\ UNCHANGED <<phase, rec, now, runs, zuk, cx, src, sources, props, enrichedList, overrides, files,
                   today, pushed>>

\* Step 7: gitCommitAndPush catches its own errors.
GitCommitAndPush ==
    /\ pc = "git"
    /\ pushed' \in {"ok", "failed"}
    /\ steps' = Append(steps, "git")
    /\ pc' = "done"
    /\ UNCHANGED <<phase, rec, now, runs, zuk, cx, src, sources, props, enrichedList, overrides, files,
                   today, pages>>

RunStep ==
    \/ CollectResults
    \/ Deduplicate
    \/ MarkNew
    \/ ApplyOverrides
    \/ Enrich
    \/ SaveSnapshot
    \/ GenerateHTML
    \/ GitCommitAndPush

Next ==
    \/ \E s \in SetOf(Scrapers) : Fulfil(s)
    \/ \E s \in SetOf(Scrapers) : Reject(s)
    \/ \E s \in SetOf(Scrapers) : Hang(s)
    \/ RunStep

Spec == Init /\ [][Next]_vars

-----------------------------------------------------------------------------
(* Successive runs of the daily script over the same data directory *)

MaxRuns == 2

\* The last calendar day a run is started on.
LastDay == MaxDay + 2

\* The data directory is empty before the first run.
RunsInit ==
    /\ phase = "idle"
    /\ rec = [inp |-> DefaultRec, out |-> None]
    /\ now = 0
    /\ pc = "scrapers"
    /\ src = [s \in SetOf(Scrapers) |-> Pending]
    /\ sources = <<>>
    /\ props = <<>>
    /\ enrichedList = <<>>
    /\ overrides = [state |-> "missing", map |-> <<>>]
    /\ today = 1
    /\ runs = 1
    /\ files = [d \in 0..LastDay |-> None]
    /\ pages = {}
    /\ pushed = "none"
    /\ steps = <<>>
    /\ zuk = Idle
    /\ cx = Idle

\* The script is started again after the previous process ended (finished or
\* exited with 1): later the same day, the next day, or after a gap.  The files
\* and pages on disk stay; the process state starts afresh.
StartRun ==
    /\ pc \in {"done", "aborted"}
    /\ runs < MaxRuns
    /\ runs' = runs + 1
    /\ \E d \in today..LastDay : today' = d
    /\ pc' = "scrapers"
    /\ src' = [s \in SetOf(Scrapers) |-> Pending]
    /\ sources' = <<>>
    /\ props' = <<>>
    /\ enrichedList' = <<>>
    /\ pushed' = "none"
    /\ steps' = <<>>
    /\ UNCHANGED <<phase, rec, now, overrides, files, pages, zuk, cx>>

RunsNext == Next \/ StartRun

RunsSpec == RunsInit /\ [][RunsNext]_vars

-----------------------------------------------------------------------------
(* Properties of enrichment and scoring *)

Enriched == phase = "enriched"
Inp == rec.inp
Out == Val(rec.out)

MarketKinds == {"AcimaDoMercado", "ProximoDoMercado"}

CountKind(alertas, kinds) ==
    Cardinality({i \in DOMAIN alertas : alertas[i].kind \in kinds})

\* The number an input area string denotes (None: missing or no number).
AreaDenotes(area) ==
    IF ~IsSome(area) THEN None
    ELSE (CHOOSE x \in AreaSamples : x.str = Val(area)).num

\* Missing, unparseable or numerically at most the floor of 10.
AreaAtMostFloor(area) ==
    \/ ~IsSome(AreaDenotes(area))
    \/ Val(AreaDenotes(area)).n <= 10 * Val(AreaDenotes(area)).d

NoTableEntry(bairro) == RelatedKeys(normalizeText(bairro)) = {}

\* C1: every record that reaches the scoring engine gets 0 <= score <= 100.
C1_ScoreWithinBounds ==
    Enriched => Val(Out.score) >= 0 /\ Val(Out.score) <= 100

\* C6: divide guard: an area that is missing, unparseable or at most 10 leaves
\* precoM2 and descontoReal undefined and adds no market warning.
C6_DivideGuard ==
    (Enriched /\ AreaAtMostFloor(Inp.area)) =>
        /\ Out.precoM2 = None
        /\ Out.descontoReal = None
        /\ CountKind(Out.alertas, MarketKinds) = 0

C6_Witness ==
    /\ Enriched
    /\ Inp.area = Some(<<"1","0","m","sup2">>)
    /\ Inp.bairro = <<"B","a","t","e","l">>
    /\ Inp.lance = 2000000
    /\ Out.precoM2 = None

\* C7 as stated: without a usable area or without a table entry all of
\* precoM2, mediaM2Bairro and descontoReal are unset and no market warning is
\* added.
C7_AllDerivedUnset ==
    (Enriched /\ (AreaAtMostFloor(Inp.area) \/ NoTableEntry(Inp.bairro))) =>
        /\ Out.precoM2 = None
        /\ Out.mediaM2Bairro = None
        /\ Out.descontoReal = None
        /\ CountKind(Out.alertas, MarketKinds) = 0

\* C7 amended: without a usable area all three are unset and no market warning
\* is added; without a table entry mediaM2Bairro and descontoReal are unset and
\* no market warning is added, while precoM2 is round(lance / area) exactly
\* when the parsed area exceeds 10.
C7_GracefulDegradation ==
    Enriched =>
        /\ AreaAtMostFloor(Inp.area) =>
              /\ Out.precoM2 = None
              /\ Out.mediaM2Bairro = None
              /\ Out.descontoReal = None
              /\ CountKind(Out.alertas, MarketKinds) = 0
        /\ NoTableEntry(Inp.bairro) =>
              /\ Out.mediaM2Bairro = None
              /\ Out.descontoReal = None
              /\ CountKind(Out.alertas, MarketKinds) = 0
              /\ LET a == extractArea(Inp.area) IN
                 Out.precoM2 = IF IsSome(a) /\ Val(a).n > 10 * Val(a).d
                               THEN Some(MathRound(Inp.lance * Val(a).d, Val(a).n))
                               ELSE None

C7_Witness ==
    /\ Enriched
    /\ Inp.bairro = <<"X","y","z">>
    /\ Inp.area = Some(<<"5","0","m","sup2">>)
    /\ Inp.lance = 300000
    /\ Out.precoM2 = Some(6000)
    /\ Out.mediaM2Bairro = None

\* C8: when a table key equals the normalized neighborhood, the baseline used
\* is that entry's value, whatever related keys come earlier in the table.
C8_ExactMatchWins ==
    Enriched =>
        \A i \in 1..Len(NEIGHBORHOOD_PRICE_M2) :
            (/\ NEIGHBORHOOD_PRICE_M2[i].key = normalizeText(Inp.bairro)
             /\ IsSome(Out.precoM2)) =>
                Out.mediaM2Bairro =
                    Some(adjustedMarketPrice(NEIGHBORHOOD_PRICE_M2[i].val,
                                             extractArea(Inp.area), Inp.tipo, Inp.fonte))

ClaimedTypeFactorPct(tipo) ==
    CASE tipo \in {<<"C","a","s","a">>, <<"S","o","b","r","a","d","o">>} -> 85
      [] tipo = <<"T","e","r","r","e","n","o">> -> 50
      [] tipo \in {<<"S","a","l","a">>, <<"I","m","o_acu","v","e","l"," ","C","o","m","e","r","c","i","a","l">>} -> 65
      [] OTHER -> 100

DiscOf(d) == IF IsSome(d) THEN Val(d) ELSE 0

\* The score of the enriched record had its desconto been d.
ScoreWithDesconto(d) == calculateScore([Out EXCEPT !.desconto = d], now).score

\* C11: score monotonicity: of two records that differ only in desconto (null
\* counted as 0), scored at the same instant, the one with the smaller desconto
\* never has the larger score.
C11_ScoreMonotoneInDesconto ==
    Enriched =>
        \A d \in DescontoSamples :
            /\ DiscOf(d) <= DiscOf(Inp.desconto) => ScoreWithDesconto(d) <= Val(Out.score)
            /\ DiscOf(d) >= DiscOf(Inp.desconto) => ScoreWithDesconto(d) >= Val(Out.score)

C11_Witness ==
    /\ Enriched
    /\ Inp.desconto = Some(70)
    /\ ScoreWithDesconto(Some(95)) = Val(Out.score)
    /\ ScoreWithDesconto(Some(40)) < Val(Out.score)
    /\ ScoreWithDesconto(None) < ScoreWithDesconto(Some(40))

\* C12: a record with encerramento = null gets exactly 7 of 15 urgency points
\* whatever the instant and its other fields, so its score is the same at
\* every scoring instant.
C12_OpenEndedUrgencyFixed ==
    (Enriched /\ Inp.encerramento = None) =>
        /\ Out.scoreBreakdown[6].name = "Prazo"
        /\ Out.scoreBreakdown[6].pts = 7
        /\ Out.scoreBreakdown[6].max = 15
        /\ \A t \in NowSamples : enrichProperty(Inp, t).score = Out.score

C12_Witness ==
    /\ Enriched
    /\ Inp.encerramento = None
    /\ now # 0
    /\ Out.scoreBreakdown[6].pts = 7
    /\ Inp.desconto = Some(-21)

\* C13: a record flagged semVagas, or with vagas = 0, gets 0 parking points
\* whatever its other fields; otherwise 15 for vagas >= 2, 10 for vagas = 1,
\* and for unknown vagas 3 when the type normally has parking, 8 when not.
C13_ParkingFactor ==
    Enriched =>
        LET pts == Out.scoreBreakdown[3].pts IN
        IF Inp.semVagas \/ Inp.vagas = Some(0) THEN pts = 0
        ELSE IF IsSome(Out.vagas) /\ Val(Out.vagas) >= 2 THEN pts = 15
        ELSE IF Out.vagas = Some(1) THEN pts = 10
        ELSE IF expectsParking(Inp.tipo) THEN pts = 3
        ELSE pts = 8

\* C14: the real-discount points are min(25, max(0, round(descontoReal / 2)))
\* when descontoReal is known (0 up to 0, 25 from 50 on, non-decreasing) and
\* exactly 10 when it is unknown.
C14_RealDiscountFactor ==
    Enriched =>
        LET pts == Out.scoreBreakdown[2].pts IN
        IF IsSome(Out.descontoReal)
        THEN LET x == Val(Out.descontoReal) IN
             /\ pts = Min(25, Max(0, (x + 1) \div 2))
             /\ x <= 0 => pts = 0
             /\ x >= 50 => pts = 25
             /\ \A y \in (x - 3)..x :
                  RealPart([Out EXCEPT !.descontoReal = Some(y)]).pts <= pts
        ELSE pts = 10

C14_Witness ==
    /\ Enriched
    /\ IsSome(Out.descontoReal)
    /\ Val(Out.descontoReal) > 0 /\ Val(Out.descontoReal) < 50
    /\ Out.scoreBreakdown[2].pts \in 1..24

\* C15: the breakdown has one entry for each of the six factors, and every
\* factor scored by a fallback for missing data (desconto null, descontoReal
\* unknown, parking unknown, priority flag unset, occupancy unknown,
\* encerramento null) carries an unknown-data marker.
C15_FallbacksAreMarked ==
    Enriched =>
        LET bd == Out.scoreBreakdown IN
        /\ [i \in DOMAIN bd |-> bd[i].name]
              = <<"Desc", "Real", "Vagas", "Bairro", "Ocup", "Prazo">>
        /\ Inp.desconto = None => bd[1].mark # ""
        /\ Out.descontoReal = None => bd[2].mark # ""
        /\ (Out.vagas = None /\ ~Inp.semVagas) => bd[3].mark # ""
        /\ ~Inp.prioridade => bd[4].mark # ""
        /\ Inp.ocupacao = "desconhecido" => bd[5].mark # ""
        /\ Inp.encerramento = None => bd[6].mark # ""

-----------------------------------------------------------------------------
(* Properties of the daily run *)

NonEmpty(list) == list # <<>>

\* The values of the fulfilled promises in the order zuk, leilao, caixa.
FulfilledValues ==
    [i \in 1..Len(Scrapers) |->
        IF src[Scrapers[i]].status = "fulfilled" THEN src[Scrapers[i]].value ELSE <<>>]

SomeRecords == \E s \in SetOf(Scrapers) : src[s].status = "fulfilled" /\ src[s].value # <<>>

Joined == pc \notin {"idle", "scrapers"}

\* C2 as stated: the run aborts only when every one of the three promises
\* rejected.
C2_AbortsOnlyWhenAllReject ==
    pc = "aborted" => \A s \in SetOf(Scrapers) : src[s].status = "rejected"

\* C2 amended: once the three promises settled, the run aborts exactly when no
\* promise fulfilled with a non-empty list; otherwise it is in the core
\* pipeline, and a finished run has written today's snapshot.
C2_AbortsIffNoRecords ==
    Joined =>
        /\ pc = "aborted" <=> ~SomeRecords
        /\ pc = "done" => files[today] = Some(enrichedList)

C2_Witness ==
    /\ pc = "done"
    /\ src["caixa"] = Fulfilled(<<>>)
    /\ src["leilao"].status = "rejected"
    /\ src["zuk"].status = "fulfilled" /\ src["zuk"].value # <<>>
    /\ IsSome(files[today])

\* C3: a rejection does not fail a run in which another scraper fulfilled with
\* a non-empty list; the lists handed to deduplication are the fulfilled ones,
\* unchanged and in order; deduplication starts only after all three settled.
C3_RejectionIsolated ==
    Joined =>
        /\ \A s \in SetOf(Scrapers) : Settled(src[s])
        /\ SomeRecords =>
              /\ pc # "aborted"
              /\ sources = SelectSeq(FulfilledValues, NonEmpty)
              /\ Flatten(sources) = Flatten(FulfilledValues)
              /\ steps # <<>> => props # <<>>

C3_Witness ==
    /\ pc = "mark"
    /\ src["zuk"].status = "rejected"
    /\ src["leilao"].status = "rejected"
    /\ src["caixa"].status = "fulfilled"
    /\ sources = <<src["caixa"].value>>
    /\ Len(src["caixa"].value) = MaxListLen

\* C4: a slow source does not block the run: while a source has delivered
\* records and today's snapshot is not yet written, the run can always take a
\* step (it is never left waiting on a source that does not settle).
C4_SlowSourceDoesNotBlock ==
    (pc # "idle" /\ SomeRecords /\ files[today] = None) => ENABLED Next

\* C5: an aborted run has written no snapshot, no page and no commit; the
\* snapshot is written only after deduplication, novelty marking, overrides
\* and enrichment completed, in that order.
C5_SnapshotOnlyAfterPipeline ==
    /\ pc = "aborted" =>
          /\ files[today] = None /\ pages = {} /\ pushed = "none" /\ steps = <<>>
    /\ (pc # "idle" /\ IsSome(files[today])) =>
          /\ Len(steps) >= 5
          /\ SubSeq(steps, 1, 5) = <<"dedup", "novelty", "overrides", "enrich", "save">>
          /\ files[today] = Some(enrichedList)
    /\ (pages # {} \/ pushed # "none") => (pc # "idle" /\ IsSome(files[today]))

C5_Witness ==
    /\ pc = "aborted"
    /\ src["zuk"] = Fulfilled(<<>>)
    /\ src["caixa"] = Fulfilled(<<>>)
    /\ src["leilao"].status = "rejected"
    /\ files[today] = None

\* The records of a list without the two fields an override may touch.
SameButOverridable(a, b) == [b EXCEPT !.semVagas = a.semVagas, !.alertas = a.alertas] = a

IsPrefix(a, b) == Len(a) <= Len(b) /\ SubSeq(b, 1, Len(a)) = a

\* The strings the override input holds for a record id (none when absent).
OverrideStrings(id) ==
    IF overrides.state = "ok" /\ IsSome(OverrideFor(overrides.map, id))
    THEN SetOf(Val(OverrideFor(overrides.map, id)).list) ELSE {}

\* The mapping without the keys that match no record of the list.
KnownKeysOnly(list) ==
    [overrides EXCEPT !.map = SelectSeq(overrides.map,
                                  LAMBDA m : \E i \in DOMAIN list : list[i].id = m.id)]

\* C16: the override step is purely additive: same records, order and ids;
\* only semVagas and alertas may change; semVagas only becomes true; alertas
\* only grows by the override's strings; keys matching no record change nothing.
C16_OverridesAdditive ==
    [][pc = "overrides" =>
          /\ Len(props') = Len(props)
          /\ \A i \in DOMAIN props :
                /\ SameButOverridable(props[i], props'[i])
                /\ props[i].semVagas => props'[i].semVagas
                /\ IsPrefix(props[i].alertas, props'[i].alertas)
                /\ \A k \in (Len(props[i].alertas) + 1)..Len(props'[i].alertas) :
                      props'[i].alertas[k] \in OverrideStrings(props[i].id)
                /\ OverrideStrings(props[i].id) = {} =>
                      props'[i].alertas = props[i].alertas
          /\ props' = ApplyOverridesTo(KnownKeysOnly(props), props)
      ]_vars

C16_Witness ==
    /\ pc = "enrich"
    /\ overrides.state = "ok"
    /\ \E k \in DOMAIN overrides.map : overrides.map[k].id = "nobody"
    /\ \E i \in DOMAIN props :
          /\ props[i].id = "zuk-1"
          /\ props[i].semVagas
          /\ Alert("Override", 0, 0) \in SetOf(props[i].alertas)

\* The override input cannot be applied as a whole: it is missing, is not
\* JSON, or holds for a record of the list a value of the wrong shape.
OverrideInputBad ==
    \/ overrides.state # "ok"
    \/ \E i \in DOMAIN props :
          /\ IsSome(OverrideFor(overrides.map, props[i].id))
          /\ Val(OverrideFor(overrides.map, props[i].id)).alertas = "notIterable"

\* C17: with a missing, unreadable, invalid or wrongly shaped override input
\* the run continues and no override is applied to any record.
C17_BadOverridesApplyNothing ==
    [][(pc = "overrides" /\ OverrideInputBad) => (pc' = "enrich" /\ props' = props)]_vars

\* C18: snapshot immutability: once the file of a calendar date is written, no
\* later step and no later run changes its content.
C18_SnapshotImmutable ==
    [][\A d \in DOMAIN files : IsSome(files[d]) => files'[d] = files[d]]_vars

\* The list the novelty step loads as yesterday's.
PreviousList == IF IsSome(files[today - 1]) THEN Val(files[today - 1]) ELSE <<>>

\* C19: the novelty step returns the same records, each with novo = false when
\* a record of the previous list has its id and novo = true when none has, and
\* leaves the previous list as it was.
C19_Novelty ==
    [][pc = "mark" =>
          /\ Len(props') = Len(props)
          /\ \A i \in DOMAIN props :
                /\ [props'[i] EXCEPT !.novo = props[i].novo] = props[i]
                /\ props'[i].novo = ~(\E j \in DOMAIN PreviousList :
                                          PreviousList[j].id = props[i].id)
          /\ files' = files
      ]_vars

C19_Witness ==
    /\ pc = "overrides"
    /\ PreviousList # <<>>
    /\ \E i \in DOMAIN props : props[i].novo
    /\ \E i \in DOMAIN props : ~props[i].novo

\* The days before today whose snapshot exists.
EarlierDays == {d \in DOMAIN files : d < today /\ IsSome(files[d])}

LatestOf(days) == CHOOSE d \in days : \A e \in days : e <= d

\* C20: the novelty step of a run compares with the snapshot written by the
\* preceding run, also across a gap of days: a record that snapshot holds
\* under the same id is never flagged novo.
C20_YesterdayIsPreviousRun ==
    (pc = "overrides" /\ files[today] = None /\ EarlierDays # {}) =>
        LET last == Val(files[LatestOf(EarlierDays)]) IN
        \A i \in DOMAIN props :
            (\E j \in DOMAIN last : last[j].id = props[i].id) => ~props[i].novo

-----------------------------------------------------------------------------
(* Further properties of enrichment and scoring *)

\* C27: the score equals the sum of the six awarded points of the breakdown
\* (the final clamp never changes the sum), and each awarded value lies
\* between 0 and the maximum printed after its slash.
C27_ScoreIsSumOfCappedParts ==
    Enriched =>
        LET bd == Out.scoreBreakdown IN
        /\ Len(bd) = 6
        /\ Val(Out.score) = bd[1].pts + bd[2].pts + bd[3].pts + bd[4].pts + bd[5].pts + bd[6].pts
        /\ \A i \in DOMAIN bd : bd[i].pts >= 0 /\ bd[i].pts <= bd[i].max

\* C30: a record whose normalized neighborhood is empty, or related to no
\* table key, gets no baseline: mediaM2Bairro and descontoReal stay unset, no
\* market alert is added and the real-discount factor is the fallback of 10.
C30_NoBaselineForUnknownBairro ==
    (Enriched /\ (normalizeText(Inp.bairro) = <<>> \/ NoTableEntry(Inp.bairro))) =>
        /\ Out.mediaM2Bairro = None
        /\ Out.descontoReal = None
        /\ CountKind(Out.alertas, MarketKinds) = 0
        /\ Out.scoreBreakdown[2] = Part("Real", 10, 25, "(?)")

-----------------------------------------------------------------------------
(* Further properties of the daily run *)

CountId(list, id) == Cardinality({i \in DOMAIN list : list[i].id = id})

\* C28: enrichProperties returns one enriched record per input record (same
\* ids with the same multiplicities), each with score and scoreBreakdown, in
\* order of non-increasing score, and leaves the input records as they were.
C28_EnrichProperties ==
    [][pc = "enrich" =>
          /\ props' = props
          /\ Len(enrichedList') = Len(props)
          /\ \A i \in DOMAIN props :
                /\ CountId(enrichedList', props[i].id) = CountId(props, props[i].id)
                /\ \E k \in DOMAIN enrichedList' :
                      [enrichedList'[k] EXCEPT !.score = None, !.scoreBreakdown = <<>>,
                                               !.vagas = props[i].vagas,
                                               !.precoM2 = None, !.mediaM2Bairro = None,
                                               !.descontoReal = None,
                                               !.alertas = props[i].alertas] = props[i]
          /\ \A k \in DOMAIN enrichedList' :
                /\ IsSome(enrichedList'[k].score)
                /\ Len(enrichedList'[k].scoreBreakdown) = 6
                /\ IsPrefix(props[CHOOSE i \in DOMAIN props :
                                    props[i].id = enrichedList'[k].id].alertas,
                            enrichedList'[k].alertas)
          /\ \A k \in 1..(Len(enrichedList') - 1) :
                Val(enrichedList'[k].score) >= Val(enrichedList'[k + 1].score)
      ]_vars

C28_Witness ==
    /\ pc = "save"
    /\ Len(enrichedList) >= 2
    /\ Val(enrichedList[1].score) > Val(enrichedList[Len(enrichedList)].score)
    /\ enrichedList[1].id # props[1].id

\* The raw records the run collected, and the canonical record of each.
RawRecords == Flatten(sources)

CanonicalIdOf(i) == RawRecords[Representative(RawRecords, ClusterOf(RawRecords, i))].id

\* C26: no alert is dropped: every warning of a raw record is in the alertas
\* of its canonical record in the persisted snapshot.
C26_NoAlertDropped ==
    (pc \in {"html", "git", "done"} /\ IsSome(files[today])) =>
        \A i \in DOMAIN RawRecords :
            \E k \in DOMAIN Val(files[today]) :
                /\ Val(files[today])[k].id = CanonicalIdOf(i)
                /\ SetOf(RawRecords[i].alertas) \subseteq SetOf(Val(files[today])[k].alertas)

C26_Witness ==
    /\ pc = "done"
    /\ overrides.state = "ok"
    /\ \E i \in DOMAIN RawRecords :
          /\ RawRecords[i].alertas # <<>>
          /\ \E k \in DOMAIN Val(files[today]) :
                /\ Val(files[today])[k].id = RawRecords[i].id
                /\ Len(Val(files[today])[k].alertas) > Len(RawRecords[i].alertas)

\* What a well-formed override entry does to its record.
WithOverride(p) ==
    LET e == Val(OverrideFor(overrides.map, p.id)) IN
    [p EXCEPT !.semVagas = @ \/ e.semVagas,
              !.alertas = IF e.alertas = "list" THEN @ \o e.list ELSE @]

\* C25: per-record failure isolation: a failure while processing one record
\* affects at most that record; in the override stage every other record with
\* a well-formed entry still receives it, and the run goes on.
C25_PerRecordIsolation ==
    [][(pc = "overrides" /\ overrides.state = "ok") =>
          /\ pc' = "enrich"
          /\ \A i \in DOMAIN props :
                (/\ IsSome(OverrideFor(overrides.map, props[i].id))
                 /\ Val(OverrideFor(overrides.map, props[i].id)).alertas # "notIterable")
                    => props'[i] = WithOverride(props[i])
      ]_vars

\* ---------------------------------------------------------------------
\* The identity resolver on its own: deduplicateProperties applied to the
\* non-empty scraper lists of one run.
\* ---------------------------------------------------------------------

\* Region listings of scrapeZuk in which one auction card can appear.
MaxRegions == 2

\* Cards a Zuk region listing can yield: a full record, a card without the
\* address span (endereco = ''), and a record of another neighborhood with
\* the same address and price as the first.
ZukCards ==
    { [DefaultRec EXCEPT !.id = "zuk-10", !.alertas = <<Alert("Ocupado", 0, 0)>>],
      [DefaultRec EXCEPT !.id = "zuk-20", !.endereco = <<>>],
      [DefaultRec EXCEPT !.id = "zuk-30", !.bairro = <<"X","y","z">>] }

\* scrapeZuk: the per-region lists pushed onto allProperties one after the
\* other; each region contributes at most one of the cards here.
RECURSIVE ZukConcat(_)
ZukConcat(n) ==
    IF n = 0 THEN { <<>> }
    ELSE { l \o r : l \in ZukConcat(n - 1), r \in { <<>> } \cup { <<c>> : c \in ZukCards } }

\* Lists of the other site: a respelling of zuk-10's address with a unit
\* number, and a record whose neighborhood is empty.
LeilaoCards ==
    << [DefaultRec EXCEPT !.id = "li-10", !.fonte = "LeilaoImovel",
                          !.endereco = <<"R", "A", "123", "AP", "5">>, !.lance = 300500,
                          !.alertas = <<Alert("SemVagas", 0, 0)>>],
       [DefaultRec EXCEPT !.id = "li-20", !.fonte = "LeilaoImovel", !.bairro = <<>>] >>

LeilaoLists ==
    { <<>>, <<LeilaoCards[1]>>, <<LeilaoCards[2]>>, LeilaoCards }

\* A Caixa row that shares the unit number with li-10 and nothing with zuk-10.
CaixaCard ==
    [DefaultRec EXCEPT !.id = "caixa-10", !.fonte = "Caixa",
                       !.endereco = <<"AV", "B", "5">>, !.lance = 450000]

CaixaLists == { <<>>, <<CaixaCard>> }

DedupInputs ==
    { SelectSeq(<<z, l, c>>, NonEmpty)
        : z \in ZukConcat(MaxRegions), l \in LeilaoLists, c \in CaixaLists } \ { <<>> }

DedupInit ==
    /\ phase = "idle"
    /\ rec = [inp |-> DefaultRec, out |-> None]
    /\ now = 0
    /\ pc = "dedup"
    /\ src = <<>>
    /\ sources \in DedupInputs
    /\ props = <<>>
    /\ enrichedList = <<>>
    /\ overrides = <<>>
    /\ files = <<>>
    /\ today = 0
    /\ runs = 0
    /\ pages = {}
    /\ pushed = "none"
    /\ steps = <<>>
    /\ zuk = Idle
    /\ cx = Idle

DedupNext == Deduplicate

DedupSpec == DedupInit /\ [][DedupNext]_vars

\* ---------------------------------------------------------------------
\* Properties of the identity resolver
\* ---------------------------------------------------------------------

\* The canonical record that raw record i ended up in.
CanonOf(i) == Canonical(RawRecords, ClusterOf(RawRecords, i))

Deduped == pc = "mark"

\* C22: two records whose normalized neighborhoods differ are never in one
\* cluster, whatever their addresses and prices and whatever chain of
\* matches lies between them: all members of a cluster, and the canonical
\* record built from it, have the same normalized neighborhood, and every
\* neighborhood of the input is still present in the output.
C22_NeverMergeAcrossBairros ==
    Deduped =>
        /\ \A i, j \in DOMAIN RawRecords :
              normalizeText(RawRecords[i].bairro) # normalizeText(RawRecords[j].bairro)
                 => /\ j \notin ClusterOf(RawRecords, i)
                    /\ CanonOf(i) # CanonOf(j)
        /\ \A i \in DOMAIN RawRecords : \E k \in DOMAIN props :
              /\ props[k] = CanonOf(i)
              /\ normalizeText(props[k].bairro) = normalizeText(RawRecords[i].bairro)

\* Same address and price in two neighborhoods, next to a cluster of three.
C22_Witness ==
    /\ Deduped
    /\ \E i, j, k \in DOMAIN RawRecords :
          /\ RawRecords[i].id = "zuk-10" /\ RawRecords[j].id = "zuk-30"
          /\ RawRecords[k].id = "caixa-10"
          /\ RawRecords[i].endereco = RawRecords[j].endereco
          /\ RawRecords[i].lance = RawRecords[j].lance
          /\ k \in ClusterOf(RawRecords, i)
          /\ j \notin ClusterOf(RawRecords, i)

\* Direct match in either direction.
Linked(i, j) ==
    Match(RawRecords[i], RawRecords[j]) \/ Match(RawRecords[j], RawRecords[i])

\* C is connected under Linked: no proper non-empty part of it is cut off.
ConnectedSet(C) ==
    \A S \in SUBSET C :
        (S # {} /\ S # C) => \E a \in S, b \in C \ S : Linked(a, b)

\* C23: the clusters are exactly the connected components of the match
\* relation: records that match are in one cluster, every cluster is
\* connected, clusters of two records are equal or disjoint, and the output
\* has one record per cluster.
C23_ClustersAreComponents ==
    Deduped =>
        LET n == Len(RawRecords)
            Cl(i) == ClusterOf(RawRecords, i)
        IN /\ \A i, j \in 1..n : Linked(i, j) => Cl(i) = Cl(j)
           /\ \A i \in 1..n : i \in Cl(i) /\ ConnectedSet(Cl(i))
           /\ \A i, j \in 1..n : Cl(i) = Cl(j) \/ Cl(i) \cap Cl(j) = {}
           /\ Len(props) = Cardinality({ Cl(i) : i \in 1..n })

\* A~B and B~C without A~C, resolved to one record.
C23_Witness ==
    /\ Deduped
    /\ \E a, b, c \in DOMAIN RawRecords :
          /\ Linked(a, b) /\ Linked(b, c) /\ ~Linked(a, c)
          /\ ClusterOf(RawRecords, a) = {a, b, c}
          /\ Len(props) = 1

\* C24: after identity resolution no two records of the output have the
\* same id.
C24_IdsUnique ==
    Deduped => \A k, l \in DOMAIN props : k # l => props[k].id # props[l].id

\* ---------------------------------------------------------------------
\* scrapeZuk on its own: the region loop, then the detail loop
\* ---------------------------------------------------------------------

\* sleep(500) after each region listing, sleep(1000) after each detail fetch.
ListingDelay == 500
DetailDelay == 1000

\* Milliseconds a detail request can take before it settles: shorter and
\* longer than the delay between requests.
FetchDurations == {40, 2500}

ZukInit ==
    /\ phase = "idle"
    /\ rec = [inp |-> DefaultRec, out |-> None]
    /\ now = 0
    /\ pc = "idle"
    /\ src = <<>>
    /\ sources = <<>>
    /\ props = <<>>
    /\ enrichedList = <<>>
    /\ overrides = <<>>
    /\ files = <<>>
    /\ today = 0
    /\ runs = 0
    /\ pages = {}
    /\ pushed = "none"
    /\ steps = <<>>
    /\ zuk = [pc |-> "listing", city |-> 1, allProperties |-> <<>>, listed |-> <<>>,
              i |-> 1, inflight |-> {}, clock |-> 0, t0 |-> 0, fetches |-> <<>>,
              result |-> None]
    /\ cx = Idle

ZukRest == <<phase, rec, now, runVars, cx>>

\* One turn of the region loop: scrapeZukListing (an unreachable region gives
\* []), push, sleep(500).  After the last region the detail loop starts; the
\* ids listed are remembered in zuk.listed.
ScrapeListing ==
    /\ zuk.pc = "listing"
    /\ \E cards \in { <<>> } \cup { <<c>> : c \in ZukCards } :
         LET all == zuk.allProperties \o cards IN
         zuk' = [zuk EXCEPT !.allProperties = all,
                            !.city = @ + 1,
                            !.clock = @ + ListingDelay,
                            !.listed = [k \in 1..Len(all) |-> all[k].id],
                            !.pc = IF zuk.city = MaxRegions THEN "details" ELSE "listing"]
    /\ UNCHANGED ZukRest

\* The loop takes the next record and scrapeZukDetail issues its request.
StartDetail ==
    /\ zuk.pc = "details" /\ zuk.i <= Len(zuk.allProperties)
    /\ zuk' = [zuk EXCEPT !.inflight = @ \cup {zuk.i}, !.t0 = zuk.clock, !.pc = "fetching"]
    /\ UNCHANGED ZukRest

\* The detail page arrives: occupancy is set when the page states it.
DetailOk ==
    /\ zuk.pc = "fetching"
    /\ \E d \in FetchDurations, occ \in {"ocupado", "desconhecido"} :
         zuk' = [zuk EXCEPT
                   !.allProperties[zuk.i].ocupacao = IF occ = "desconhecido" THEN @ ELSE occ,
                   !.inflight = @ \ {zuk.i},
                   !.clock = @ + d,
                   !.fetches = Append(@, [idx |-> zuk.i, start |-> zuk.t0,
                                          end |-> zuk.clock + d, ok |-> TRUE]),
                   !.pc = "sleeping"]
    /\ UNCHANGED ZukRest

\* Mutant of DetailFail: the failed record is skipped with no delay (the
\* loop goes straight on to the next request).
DetailFail_SkipsDelay ==
    /\ zuk.pc = "fetching"
    /\ \E d \in FetchDurations :
         zuk' = [zuk EXCEPT
                   !.inflight = @ \ {zuk.i},
                   !.clock = @ + d,
                   !.fetches = Append(@, [idx |-> zuk.i, start |-> zuk.t0,
                                          end |-> zuk.clock + d, ok |-> FALSE]),
                   !.i = @ + 1,
                   !.pc = "details"]
    /\ UNCHANGED ZukRest

\* fetchHTML throws (network error or status not ok): scrapeZukDetail's catch
\* logs a warning and returns; the record is left as listed.
DetailFail ==
    /\ zuk.pc = "fetching"
    /\ \E d \in FetchDurations :
         zuk' = [zuk EXCEPT
                   !.inflight = @ \ {zuk.i},
                   !.clock = @ + d,
                   !.fetches = Append(@, [idx |-> zuk.i, start |-> zuk.t0,
                                          end |-> zuk.clock + d, ok |-> FALSE]),
                   !.pc = "sleeping"]
    /\ UNCHANGED ZukRest

\* await sleep(1000) resolves; the loop moves to the next record.
DetailDelayElapsed ==
    /\ zuk.pc = "sleeping"
    /\ zuk' = [zuk EXCEPT !.clock = @ + DetailDelay, !.i = @ + 1, !.pc = "details"]
    /\ UNCHANGED ZukRest

\* The detail loop is over: scrapeZuk returns allProperties.
ZukReturn ==
    /\ zuk.pc = "details" /\ zuk.i > Len(zuk.allProperties)
    /\ zuk' = [zuk EXCEPT !.result = Some(zuk.allProperties), !.pc = "done"]
    /\ UNCHANGED ZukRest

ZukNext ==
    \/ ScrapeListing
    \/ StartDetail
    \/ DetailOk
    \/ DetailFail
    \/ DetailDelayElapsed
    \/ ZukReturn

ZukSpec == ZukInit /\ [][ZukNext]_vars

\* ---------------------------------------------------------------------
\* Properties of scrapeZuk
\* ---------------------------------------------------------------------

\* C21: detail requests are issued one at a time (never two in flight);
\* each request starts at least 1000 ms after the previous one settled,
\* whether that one succeeded or failed; and when scrapeZuk returns, every
\* listed record is in the result, in order, and every one of them had its
\* detail request, failures included.
C21_DetailFetchesRateLimited ==
    zuk.pc # "idle" =>
        LET f == zuk.fetches IN
        /\ Cardinality(zuk.inflight) <= 1
        /\ \A k \in 1..(Len(f) - 1) : f[k + 1].start >= f[k].end + DetailDelay
        /\ (zuk.pc = "fetching" /\ f # <<>>) => zuk.t0 >= f[Len(f)].end + DetailDelay
        /\ zuk.pc = "done" =>
              /\ [k \in 1..Len(zuk.result[1]) |-> zuk.result[1][k].id] = zuk.listed
              /\ [k \in 1..Len(f) |-> f[k].idx] = [k \in 1..Len(zuk.listed) |-> k]

\* A failed request, the delay, then a successful one, and both records
\* returned.
C21_Witness ==
    /\ zuk.pc = "done"
    /\ Len(zuk.fetches) = 2
    /\ ~zuk.fetches[1].ok /\ zuk.fetches[2].ok
    /\ Len(zuk.result[1]) = 2

\* ---------------------------------------------------------------------
\* scrapeCaixa on its own: direct download, cache fallback, cache update
\* ---------------------------------------------------------------------

\* The byte fs writes for a character under 'latin1': the low 8 bits of its
\* code unit.  "repl" is U+FFFD (what resp.text() yields for a byte that is
\* not UTF-8), whose low byte 0xFD is "y_acute"; every other character used
\* here is below U+0100 and is its own byte.
Latin1Byte(c) == IF c = "repl" THEN "y_acute" ELSE c

\* writeFileSync(file, text, 'latin1'): the bytes of the file.
writeLatin1(text) == [k \in 1..Len(text) |-> Latin1Byte(text[k])]

\* readFileSync(file, 'latin1'): every byte is the character of that code.
readLatin1(bytes) == bytes

HeaderNo == <<"N", "o_ord", " ", "d", "o", " ", "i", "m", "o_acute", "v", "e", "l">>
HeaderLista == <<"L", "i", "s", "t", "a", " ", "d", "e", " ", "I", "m">>

\* text.includes('N. do imovel') || ... || text.includes('Lista de Im')
LooksLikeCsv(text) == Includes(text, HeaderNo) \/ Includes(text, HeaderLista)

\* Bodies the download can yield: the CSV sent as UTF-8; the CSV sent as
\* ISO-8859-1, whose accented bytes resp.text() turns into U+FFFD, with and
\* without the title line; a bot-protection page; an empty body.
ResponseTexts ==
    { HeaderNo \o <<";", "U", "F">>,
      HeaderLista \o <<"repl", "v", "e", "i", "s">>,
      HeaderLista \o <<"o_acute", "v", "e", "i", "s">>,
      <<"N", "repl", " ", "d", "o", " ", "i", "m", "repl", "v", "e", "l">>,
      <<"<", "h", "t", "m", "l", ">">>,
      <<>> }

\* Outcomes of the direct download: fetch or resp.text() throws, or a body.
DownloadOutcomes == {None} \cup { Some(t) : t \in ResponseTexts }

\* data/caixa_pr_cache.csv before the call: absent, empty, a manually saved
\* list, the file an earlier call wrote, or some other content.
CacheStates ==
    { None,
      Some(<<>>),
      Some(HeaderLista \o <<"o_acute", "v", "e", "i", "s", ";", "o", "l", "d">>),
      Some(writeLatin1(HeaderLista \o <<"repl", "v", "e", "i", "s">>)),
      Some(<<"x">>) }

CaixaInit ==
    /\ phase = "idle"
    /\ rec = [inp |-> DefaultRec, out |-> None]
    /\ now = 0
    /\ pc = "idle"
    /\ src = <<>>
    /\ sources = <<>>
    /\ props = <<>>
    /\ enrichedList = <<>>
    /\ overrides = <<>>
    /\ files = <<>>
    /\ today = 0
    /\ runs = 0
    /\ pages = {}
    /\ pushed = "none"
    /\ steps = <<>>
    /\ zuk = Idle
    /\ \E c \in CacheStates :
         cx = [pc |-> "download", response |-> None, csvText |-> <<>>,
               cache |-> c, cache0 |-> c, result |-> "none"]

CaixaRest == <<phase, rec, now, runVars, zuk>>

\* The try block of the direct fetch: csvText is the body when it looks like
\* the CSV; a CAPTCHA page or an exception leaves csvText = ''.
DirectDownload ==
    /\ cx.pc = "download"
    /\ \E o \in DownloadOutcomes :
         cx' = [cx EXCEPT !.response = o,
                          !.csvText = IF IsSome(o) /\ LooksLikeCsv(o[1]) THEN o[1] ELSE <<>>,
                          !.pc = "fallback"]
    /\ UNCHANGED CaixaRest

\* if (!csvText && existsSync(cacheFile)) csvText = readFileSync(cacheFile, 'latin1')
CacheFallback ==
    /\ cx.pc = "fallback"
    /\ cx' = [cx EXCEPT !.csvText = IF cx.csvText = <<>> /\ IsSome(cx.cache)
                                    THEN readLatin1(cx.cache[1]) ELSE @,
                        !.pc = "check"]
    /\ UNCHANGED CaixaRest

\* if (!csvText) return []
NoData ==
    /\ cx.pc = "check" /\ cx.csvText = <<>>
    /\ cx' = [cx EXCEPT !.result = "empty", !.pc = "done"]
    /\ UNCHANGED CaixaRest

\* writeFileSync(cacheFile, csvText, 'latin1')
SaveCache ==
    /\ cx.pc = "check" /\ cx.csvText # <<>>
    /\ cx' = [cx EXCEPT !.cache = Some(writeLatin1(cx.csvText)), !.pc = "parse"]
    /\ UNCHANGED CaixaRest

\* The rows of csvText are parsed and the list is returned.
ParseCsv ==
    /\ cx.pc = "parse"
    /\ cx' = [cx EXCEPT !.result = "parsed", !.pc = "done"]
    /\ UNCHANGED CaixaRest

CaixaNext ==
    \/ DirectDownload
    \/ CacheFallback
    \/ NoData
    \/ SaveCache
    \/ ParseCsv

CaixaSpec == CaixaInit /\ [][CaixaNext]_vars

\* ---------------------------------------------------------------------
\* Properties of scrapeCaixa
\* ---------------------------------------------------------------------

\* The download gave a body that was recognised as the CSV.
ValidDownload == IsSome(cx.response) /\ LooksLikeCsv(cx.response[1])

\* The cache file exists and reading it gives back the text.
CacheHolds(text) == IsSome(cx.cache) /\ readLatin1(cx.cache[1]) = text

\* C29: whatever the download gave and whatever the cache was, the cache
\* afterwards has its old content or holds the downloaded text that was
\* recognised as the CSV; a response that was not recognised is never
\* written; and with no valid download and no cache the scraper returns an
\* empty list and creates no cache file.
C29_CacheSafety ==
    cx.pc \in {"parse", "done"} =>
        /\ \/ cx.cache = cx.cache0
           \/ ValidDownload /\ CacheHolds(cx.response[1])
        /\ ~ValidDownload => cx.cache = cx.cache0
        /\ (~ValidDownload /\ cx.cache0 = None) =>
              (cx.pc = "done" /\ cx.result = "empty" /\ cx.cache = None)

====
